---- MODULE Spec2Model ----
(***************************************************************************)
(* minicontainer: the three launchers (spawn_process, namespace_exec,      *)
(* mount_exec), their cleanup operations, the child entry point with the   *)
(* rootfs pivot and the proc mount, and the front ends that call them.      *)
(*                                                                         *)
(* Two processes run per launch: the parent (the launcher and its caller)  *)
(* and the child (child_func, then the target program).  Every system call *)
(* of the code is one step; its outcome (success or failure) is chosen by  *)
(* the environment.  Debug output (enable_debug) writes to stdout only and *)
(* is not part of the state.                                               *)
(***************************************************************************)
EXTENDS Integers, Sequences, FiniteSets, TLC

\* ---------------------------------------------------------------- bounds

\* Highest signal number the target program may be killed by.
MaxSig == 16

\* How many further cleanup calls a caller makes besides the one its code has.
MaxExtraCleanups == 1

\* How many calls of spawn_init_signals a caller makes whose result it ignores.
MaxInitCalls == 2

\* ------------------------------------------------------------- constants

NULL == "NULL"

\* The clone(2) flag words used by the launchers.
SIGCHLD == "SIGCHLD"
CLONE_NEWPID == "CLONE_NEWPID"
CLONE_NEWNS == "CLONE_NEWNS"

\* The mount(2) / umount2(2) flag words used by setup_rootfs.
MS_BIND == "MS_BIND"
MS_REC == "MS_REC"
MS_PRIVATE == "MS_PRIVATE"
MNT_DETACH == "MNT_DETACH"

\* The handle malloc(STACK_SIZE) returns on success.
STACK == "STACK"

Launchers == {"spawn", "namespace", "mount"}

ExitCodes == 0 .. 255

Signals == 1 .. MaxSig

\* ------------------------------------------------ wait status (sys/wait.h)

\* The status word the kernel reports for a child that returned / exited
\* with value ret: the low 8 bits of ret, in bits 8..15.
W_EXITCODE(ret) == (ret % 256) * 256

\* The status word for a child killed by signal s (core: bit 7).
W_KILLED(s, core) == s + (IF core THEN 128 ELSE 0)

WTERMSIG(st) == st % 128

WIFEXITED(st) == WTERMSIG(st) = 0

\* Mutant: the exit code is read from the low byte of the status word.
WEXITSTATUS_LowByte(st) == st % 256

\* Mutant: the exit code is read as a signed char.
WEXITSTATUS_Signed(st) ==
    LET b == (st \div 256) % 256
    IN  IF b >= 128 THEN b - 256 ELSE b

WEXITSTATUS(st) == (st \div 256) % 256

\* ((signed char)((st & 0x7f) + 1) >> 1) > 0
WIFSIGNALED(st) == WTERMSIG(st) >= 1 /\ WTERMSIG(st) <= 126

\* ------------------------------------------------------------ the inputs

Programs == {NULL, "", "/bin/sh"}

\* argv: the pointer and, when it is not NULL, the vector before its NULL end.
Argvs == {[ptr |-> NULL, args |-> <<>>],
          [ptr |-> "argv", args |-> <<>>],
          [ptr |-> "argv", args |-> <<"/bin/sh">>]}

Envps == {NULL, "envp"}

RootfsPaths == {NULL, "./rootfs"}

\* Whether a configuration has only the everyday values of the fields that
\* the isolation steps do not read: a program path, a non-empty argument
\* vector (or one of the two missing), the inherited environment.
Everyday(c) ==
    /\ c.program # ""
    /\ (c.argv.ptr # NULL => c.argv.args # <<>>)
    /\ c.envp = NULL

\* spawn_config_t, namespace_config_t and mount_config_t; a launcher reads
\* only the fields its own type has.  The other values of program, argv and
\* envp are enumerated with the isolation switched off.
SpawnConfigs ==
    [program : Programs, argv : Argvs, envp : Envps]

NamespaceConfigs ==
    {c \in [program : Programs, argv : Argvs, envp : Envps,
            enable_pid_namespace : BOOLEAN] :
        Everyday(c) \/ ~c.enable_pid_namespace}

MountConfigs ==
    {c \in [program : Programs, argv : Argvs, envp : Envps,
            enable_pid_namespace : BOOLEAN, enable_mount_namespace : BOOLEAN,
            rootfs_path : RootfsPaths] :
        \/ Everyday(c)
        \/ ~c.enable_pid_namespace /\ ~c.enable_mount_namespace
             /\ c.rootfs_path = NULL}

ConfigsOf(l) ==
    CASE l = "spawn" -> SpawnConfigs
      [] l = "namespace" -> NamespaceConfigs
      [] l = "mount" -> MountConfigs

\* ------------------------------------------------------------- the state

VARIABLES
    launcher,     \* which launcher this run calls
    cfgPtr,       \* the config pointer handed to the launcher: NULL or "config"
    config,       \* the configuration it points to
    pc,           \* the parent's position
    result,       \* the launcher's result struct
    heap,         \* the stack region: its state and the malloc/free calls on it
    flags,        \* the flags handed to clone
    child,        \* the child process
    mnt,          \* the mount table of each mount namespace
    hostMnt0,     \* the host's mount table before the launch
    ops,          \* the mount-table system calls the child has made, in order
    fs,           \* the caller-supplied root tree: old_root and proc entries
    sig,          \* SIGCHLD handling of the parent (spawn.c)
    calls,        \* the pointer argument of each cleanup call made, in order
    failure,      \* the launcher's failure branch taken, or "none"
    exitCode      \* the front end's own exit code, once it has returned

vars == <<launcher, cfgPtr, config, pc, result, heap, flags, child, mnt,
          hostMnt0, ops, fs, sig, calls, failure, exitCode>>


\* ------------------------------------------------------- the initial state

\* result = {0}: spawn_result_t has no stack handle.
ZeroResult(l) ==
    IF l = "spawn"
    THEN [child_pid |-> 0, exit_status |-> 0, exited_normally |-> FALSE,
          signal |-> 0]
    ELSE [child_pid |-> 0, exit_status |-> 0, exited_normally |-> FALSE,
          signal |-> 0, stack_ptr |-> NULL]

\* The configuration a NULL config pointer stands for is never read.
UnreadConfig(l) ==
    CHOOSE c \in ConfigsOf(l) :
        /\ c.program = NULL
        /\ c.argv.ptr = NULL
        /\ c.envp = NULL
        /\ (l # "spawn" => ~c.enable_pid_namespace)
        /\ (l = "mount" => ~c.enable_mount_namespace /\ c.rootfs_path = NULL)

\* Mutant: the pivot and the proc mount also run when PID isolation is on.
UsesRootfsOrPid(l, c) ==
    l = "mount" /\ (c.rootfs_path # NULL \/ c.enable_pid_namespace)

\* Whether the launch touches the root tree and the mount table at all.
UsesRootfs(l, c) == l = "mount" /\ c.rootfs_path # NULL

\* The root tree as the provisioning step left it: whether it has an old_root
\* entry, and what its /proc entry is.
RootTrees ==
    {[old_root0 |-> o, old_root |-> o, proc |-> p] :
        o \in {"absent", "present"}, p \in {"absent", "dir", "file"}}

\* The host's root mount: systemd leaves it shared, other inits private.
HostTables ==
    {{[fs |-> "hostfs", at |-> "/", prop |-> p]} : p \in {"shared", "private"}}

NoChild ==
    [pc |-> "none", pid |-> 0, getpid |-> 0, status |-> 0, mntns |-> "host",
     cwd |-> "/", env |-> NULL, execCalled |-> FALSE, execd |-> FALSE,
     how |-> [kind |-> "none", val |-> 0], reapedBy |-> "none"]

\* Mutant: every front end starts by installing the SIGCHLD handler.
InitInstallsHandler ==
    /\ launcher \in Launchers
    /\ cfgPtr \in {NULL, "config"}
    /\ config \in (IF cfgPtr = NULL THEN {UnreadConfig(launcher)}
                   ELSE ConfigsOf(launcher))
    /\ pc = "init_signals"
    /\ result = ZeroResult(launcher)
    /\ heap = [state |-> "unallocated", mallocs |-> 0, frees |-> 0]
    /\ flags = {}
    /\ child = NoChild
    /\ hostMnt0 \in (IF cfgPtr # NULL /\ UsesRootfs(launcher, config)
                     THEN HostTables
                     ELSE {{[fs |-> "hostfs", at |-> "/", prop |-> "shared"]}})
    /\ mnt = [host |-> hostMnt0, child |-> {}]
    /\ ops = <<>>
    /\ fs \in (IF cfgPtr # NULL /\ UsesRootfs(launcher, config)
               THEN RootTrees
               ELSE {[old_root0 |-> "absent", old_root |-> "absent",
                      proc |-> "dir"]})
    /\ sig = [initialized |-> FALSE, handler |-> FALSE, pending |-> FALSE,
              inits |-> 0, installs |-> 0, ret |-> 0]
    /\ calls = <<>>
    /\ failure = "none"
    /\ exitCode = -1

Init ==
    /\ launcher \in Launchers
    /\ cfgPtr \in {NULL, "config"}
    /\ config \in (IF cfgPtr = NULL THEN {UnreadConfig(launcher)}
                   ELSE ConfigsOf(launcher))
    /\ pc = (IF launcher = "spawn" THEN "init_signals" ELSE "validate")
    /\ result = ZeroResult(launcher)
    /\ heap = [state |-> "unallocated", mallocs |-> 0, frees |-> 0]
    /\ flags = {}
    /\ child = NoChild
    /\ hostMnt0 \in (IF cfgPtr # NULL /\ UsesRootfs(launcher, config)
                     THEN HostTables
                     ELSE {{[fs |-> "hostfs", at |-> "/", prop |-> "shared"]}})
    /\ mnt = [host |-> hostMnt0, child |-> {}]
    /\ ops = <<>>
    /\ fs \in (IF cfgPtr # NULL /\ UsesRootfs(launcher, config)
               THEN RootTrees
               ELSE {[old_root0 |-> "absent", old_root |-> "absent",
                      proc |-> "dir"]})
    /\ sig = [initialized |-> FALSE, handler |-> FALSE, pending |-> FALSE,
              inits |-> 0, installs |-> 0, ret |-> 0]
    /\ calls = <<>>
    /\ failure = "none"
    /\ exitCode = -1

\* ------------------------------------------------- the parent: launchers

\* Mutant: the validation forgets the argument vector.
InvalidConfigNoArgv(ptr, c) ==
    ptr = NULL \/ c.program = NULL

\* Mutant: the validation also rejects an empty program path and an
\* argument vector without entries.
InvalidConfigOrEmpty(ptr, c) ==
    \/ ptr = NULL \/ c.program = NULL \/ c.argv.ptr = NULL
    \/ c.program = "" \/ c.argv.args = <<>>

\* if(!config || !config->program || !config->argv)
InvalidConfig(ptr, c) ==
    ptr = NULL \/ c.program = NULL \/ c.argv.ptr = NULL

\* The validation at the head of spawn_process, namespace_exec, mount_exec.
Validate ==
    /\ pc = "validate"
    /\ IF InvalidConfig(cfgPtr, config)
       THEN /\ result' = [result EXCEPT !.child_pid = -1]
            /\ failure' = "validate"
            /\ pc' = "returned"
       ELSE /\ result' = result
            /\ failure' = failure
            /\ pc' = (IF launcher = "spawn" THEN "fork" ELSE "malloc")
    /\ UNCHANGED <<launcher, cfgPtr, config, heap, flags, child, mnt,
                   hostMnt0, ops, fs, sig, calls, exitCode>>

\* char *stack = malloc(STACK_SIZE), succeeding.
MallocOk ==
    /\ pc = "malloc"
    /\ heap' = [heap EXCEPT !.state = "allocated", !.mallocs = @ + 1]
    /\ result' = [result EXCEPT !.stack_ptr = STACK]
    /\ pc' = "clone"
    /\ UNCHANGED <<launcher, cfgPtr, config, flags, child, mnt, hostMnt0,
                   ops, fs, sig, calls, failure, exitCode>>

\* malloc returning NULL: child_pid = -1 and return.
MallocFail ==
    /\ pc = "malloc"
    /\ result' = [result EXCEPT !.child_pid = -1]
    /\ pc' = "returned"
    /\ failure' = "malloc"
    /\ UNCHANGED <<launcher, cfgPtr, config, heap, flags, child, mnt,
                   hostMnt0, ops, fs, sig, calls, exitCode>>

\* Build clone flags, namespace_exec.
NamespaceFlags(c) ==
    {SIGCHLD} \cup (IF c.enable_pid_namespace THEN {CLONE_NEWPID} ELSE {})

\* Mutant: the PID-namespace flag is set from the mount-namespace switch.
MountFlagsPidFromMount(c) ==
    {SIGCHLD}
        \cup (IF c.enable_mount_namespace THEN {CLONE_NEWPID} ELSE {})
        \cup (IF c.enable_mount_namespace THEN {CLONE_NEWNS} ELSE {})

\* Mutant: mount_exec always asks for a new mount namespace.
MountFlagsAlwaysNewns(c) ==
    {SIGCHLD, CLONE_NEWNS}
        \cup (IF c.enable_pid_namespace THEN {CLONE_NEWPID} ELSE {})

\* Build flags, mount_exec.
MountFlags(c) ==
    {SIGCHLD}
        \cup (IF c.enable_pid_namespace THEN {CLONE_NEWPID} ELSE {})
        \cup (IF c.enable_mount_namespace THEN {CLONE_NEWNS} ELSE {})

CloneFlags(l, c) ==
    IF l = "mount" THEN MountFlags(c) ELSE NamespaceFlags(c)

\* The process id the kernel gives the child in the parent's namespace: any
\* id above that of init.
Pids == {2}

\* What clone(2) / fork(2) create: a process that starts at its entry point,
\* in a copy of the parent's mount namespace when CLONE_NEWNS is set, and as
\* process 1 of a new PID namespace when CLONE_NEWPID is set.
NewChild(pid, fl) ==
    [NoChild EXCEPT !.pc = "entry",
                    !.pid = pid,
                    !.getpid = (IF CLONE_NEWPID \in fl THEN 1 ELSE pid),
                    !.mntns = (IF CLONE_NEWNS \in fl THEN "child" ELSE "host")]

\* pid_t pid = clone(child_func, stack + STACK_SIZE, flags, &child_args),
\* succeeding.
CloneOk ==
    /\ pc = "clone"
    /\ \E pid \in Pids :
        /\ flags' = CloneFlags(launcher, config)
        /\ child' = NewChild(pid, flags')
        /\ mnt' = (IF CLONE_NEWNS \in flags'
                   THEN [mnt EXCEPT !.child = mnt.host] ELSE mnt)
        /\ result' = [result EXCEPT !.child_pid = pid]
    /\ pc' = "wait"
    /\ UNCHANGED <<launcher, cfgPtr, config, heap, hostMnt0, ops, fs, sig,
                   calls, failure, exitCode>>

\* Mutant: the creation-failure branch frees the stack and keeps the handle.
CloneFailedKeepsHandle(res) ==
    [res EXCEPT !.child_pid = -1]

\* The pid < 0 branch after clone.
CloneFailed(res) ==
    [res EXCEPT !.child_pid = -1, !.stack_ptr = NULL]

\* free(p) as the allocator sees it.
Free(h) ==
    [h EXCEPT !.state = "freed", !.frees = @ + 1]

\* clone failing: free(stack), child_pid = -1, stack_ptr = NULL.
CloneFail ==
    /\ pc = "clone"
    /\ flags' = CloneFlags(launcher, config)
    /\ heap' = Free(heap)
    /\ result' = CloneFailed(result)
    /\ pc' = "returned"
    /\ failure' = "clone"
    /\ UNCHANGED <<launcher, cfgPtr, config, child, mnt, hostMnt0, ops, fs,
                   sig, calls, exitCode>>

\* pid_t pid = fork() in spawn_process, succeeding: the child goes on to
\* execve in the parent's namespaces.
ForkOk ==
    /\ pc = "fork"
    /\ \E pid \in Pids :
        /\ child' = NewChild(pid, {SIGCHLD})
        /\ result' = [result EXCEPT !.child_pid = pid]
    /\ flags' = {SIGCHLD}
    /\ pc' = "wait"
    /\ UNCHANGED <<launcher, cfgPtr, config, heap, mnt, hostMnt0, ops, fs,
                   sig, calls, failure, exitCode>>

\* fork failing: child_pid = -1.
ForkFail ==
    /\ pc = "fork"
    /\ result' = [result EXCEPT !.child_pid = -1]
    /\ pc' = "returned"
    /\ failure' = "fork"
    /\ UNCHANGED <<launcher, cfgPtr, config, heap, flags, child, mnt,
                   hostMnt0, ops, fs, sig, calls, exitCode>>

\* Mutant: a signal death reports the bare signal number as the exit status.
DecodeRawSignal(res, st) ==
    IF WIFEXITED(st)
    THEN [res EXCEPT !.exited_normally = TRUE,
                     !.exit_status = WEXITSTATUS(st)]
    ELSE IF WIFSIGNALED(st)
    THEN [res EXCEPT !.exited_normally = FALSE,
                     !.signal = WTERMSIG(st),
                     !.exit_status = WTERMSIG(st)]
    ELSE res

\* Parse status.
Decode(res, st) ==
    IF WIFEXITED(st)
    THEN [res EXCEPT !.exited_normally = TRUE,
                     !.exit_status = WEXITSTATUS(st)]
    ELSE IF WIFSIGNALED(st)
    THEN [res EXCEPT !.exited_normally = FALSE,
                     !.signal = WTERMSIG(st),
                     !.exit_status = 128 + WTERMSIG(st)]
    ELSE res

\* Mutant: the wait does not block (WNOHANG): it returns at once, and
\* decodes a status only if the child has terminated already.
WaitOkNoHang ==
    /\ pc = "wait"
    /\ child.pc # "reaped"
    /\ IF child.pc = "zombie"
       THEN /\ child' = [child EXCEPT !.pc = "reaped", !.reapedBy = "launcher"]
            /\ result' = Decode(result, child.status)
       ELSE /\ child' = child
            /\ result' = result
    /\ pc' = "returned"
    /\ UNCHANGED <<launcher, cfgPtr, config, heap, flags, mnt, hostMnt0,
                   ops, fs, sig, calls, failure, exitCode>>

\* Mutant: the wait reads the status and leaves the child a zombie
\* (WNOWAIT).
WaitOkNoReap ==
    /\ pc = "wait"
    /\ child.pc = "zombie"
    /\ child' = child
    /\ result' = Decode(result, child.status)
    /\ pc' = "returned"
    /\ UNCHANGED <<launcher, cfgPtr, config, heap, flags, mnt, hostMnt0,
                   ops, fs, sig, calls, failure, exitCode>>

\* waitpid(pid, &status, 0) returning the child's status: the child is
\* reaped and the status decoded.
WaitOk ==
    /\ pc = "wait"
    /\ child.pc = "zombie"
    /\ child' = [child EXCEPT !.pc = "reaped", !.reapedBy = "launcher"]
    /\ result' = Decode(result, child.status)
    /\ pc' = "returned"
    /\ UNCHANGED <<launcher, cfgPtr, config, heap, flags, mnt, hostMnt0,
                   ops, fs, sig, calls, failure, exitCode>>

\* Mutant: namespace_exec / mount_exec report a wait failure the way
\* spawn_process does.
WaitFailedLikeSpawn(l, res) ==
    [res EXCEPT !.child_pid = -1]

\* The wait_result < 0 branch: spawn_process gives up the pid,
\* namespace_exec and mount_exec set exit_status.
WaitFailed(l, res) ==
    IF l = "spawn"
    THEN [res EXCEPT !.child_pid = -1]
    ELSE [res EXCEPT !.exit_status = -1]

\* waitpid failing: with ECHILD when the child is not there to wait for any
\* more (failure "wait_echild"), otherwise interrupted (failure "wait").  No
\* status is read.
WaitFail ==
    /\ pc = "wait"
    /\ result' = WaitFailed(launcher, result)
    /\ pc' = "returned"
    /\ failure' = (IF child.pc = "reaped" THEN "wait_echild" ELSE "wait")
    /\ UNCHANGED <<launcher, cfgPtr, config, heap, flags, child, mnt,
                   hostMnt0, ops, fs, sig, calls, exitCode>>


\* --------------------------------------------------- the child: setup_rootfs

\* The child terminates with wait status st, having returned or exited with
\* val (kind "exit") or been killed by signal val; the kernel sends the parent
\* SIGCHLD, which stays pending only if a handler is installed for it.
Terminate(st, kind, val) ==
    /\ child' = [child EXCEPT !.pc = "zombie", !.status = st,
                              !.how = [kind |-> kind, val |-> val]]
    /\ sig' = [sig EXCEPT !.pending = sig.handler]

\* Mutant: a failed step falls through to the exec.
ChildFallsThrough ==
    /\ child' = [child EXCEPT !.pc = "execve"]
    /\ sig' = sig

\* Mutant: a failed step makes child_func return 0.
ChildReturnsZero == Terminate(W_EXITCODE(0), "exit", 0)

\* Mutant: a failed step leaves the child the way a failed execve does.
ChildFailsLikeExec == Terminate(W_EXITCODE(127), "exit", 127)

\* A failed step: the function returns -1 up through child_func, and the
\* child's exit status is that return value.
ChildFails == Terminate(W_EXITCODE(-1), "exit", -1)

\* The record of one system call of the child in the log.
Logged(call, path, fl, ok) ==
    ops' = Append(ops, [call |-> call, path |-> path, flags |-> fl,
                        ns |-> child.mntns, ok |-> ok,
                        errno |-> IF ok THEN "none"
                                  ELSE IF call = "mkdir" /\ fs.old_root = "present"
                                  THEN "EEXIST" ELSE "other"])

\* realpath(rootfs_path, abs_path) of the root tree handed in.
AbsPath(p) == IF p = "./rootfs" THEN "/srv/rootfs" ELSE p

\* The mount a table has at "/".
RootMount(tab) == CHOOSE m \in tab : m.at = "/"

\* mount("", path, NULL, MS_PRIVATE | MS_REC, NULL) on a table: the mount at
\* path and every mount below it become private.
MakePrivate(tab, path) ==
    {IF path = "/" \/ m.at = path THEN [m EXCEPT !.prop = "private"] ELSE m :
        m \in tab}

\* mount(path, path, NULL, MS_BIND | MS_REC, NULL) on a table: the tree
\* becomes a mount of its own, with the propagation of the mount it is in.
BindSelf(tab, path) ==
    tab \cup {[fs |-> "rootfs", at |-> path, prop |-> RootMount(tab).prop]}

\* pivot_root(".", "old_root") on a table, from the directory newroot: the
\* mount at newroot becomes "/", the old root moves to /old_root.
Pivot(tab, newroot) ==
    {[m EXCEPT !.at = (IF m.at = newroot THEN "/"
                       ELSE IF m.at = "/" THEN "/old_root" ELSE m.at)] :
        m \in tab}

\* What pivot_root(2) requires: the new root is a mount point, the current
\* root mount is not shared, and put_old exists below the new root.
PivotAllowed(tab, newroot, cwd, tree) ==
    /\ \E m \in tab : m.at = newroot
    /\ RootMount(tab).prop # "shared"
    /\ cwd = newroot
    /\ tree.old_root = "present"

\* Mutant: the unmount names a path relative to the directory the child
\* was in before the pivot, where nothing is mounted.
DetachNothing(tab, path) == tab

\* umount2(path, MNT_DETACH) on a table.
Detach(tab, path) == {m \in tab : m.at # path}

\* mount("proc", "/proc", "proc", 0, NULL) on a table.
ProcMounted(tab) ==
    tab \cup {[fs |-> "proc", at |-> "/proc", prop |-> RootMount(tab).prop]}

\* Mutant: setup_rootfs starts with the make-private of "/" and uses the
\* path as it was given, without realpath.
ChildEntrySkipsRealpath ==
    /\ child.pc = "entry"
    /\ child' = [child EXCEPT !.pc = (IF UsesRootfs(launcher, config)
                                      THEN "private_root" ELSE "execve")]
    /\ UNCHANGED <<launcher, cfgPtr, config, pc, result, heap, flags, mnt,
                   hostMnt0, ops, fs, sig, calls, failure, exitCode>>

\* child_func: with a rootfs_path (mount.c only) the pivot comes first,
\* otherwise the child goes straight to execve.
ChildEntry ==
    /\ child.pc = "entry"
    /\ child' = [child EXCEPT !.pc = (IF UsesRootfs(launcher, config)
                                      THEN "realpath" ELSE "execve")]
    /\ UNCHANGED <<launcher, cfgPtr, config, pc, result, heap, flags, mnt,
                   hostMnt0, ops, fs, sig, calls, failure, exitCode>>

\* realpath(rootfs_path, abs_path)
Realpath ==
    /\ child.pc = "realpath"
    /\ \E ok \in BOOLEAN :
        /\ Logged("realpath", config.rootfs_path, {}, ok)
        /\ IF ok THEN /\ child' = [child EXCEPT !.pc = "private_root"]
                      /\ sig' = sig
                 ELSE ChildFails
    /\ UNCHANGED <<launcher, cfgPtr, config, pc, result, heap, flags, mnt,
                   hostMnt0, fs, calls, failure, exitCode>>

\* Mutant: setup_rootfs goes from realpath straight to the bind mount.
SkipRootPrivate ==
    /\ child.pc = "private_root"
    /\ child' = [child EXCEPT !.pc = "bind"]
    /\ UNCHANGED <<launcher, cfgPtr, config, pc, result, heap, flags, mnt,
                   hostMnt0, ops, fs, sig, calls, failure, exitCode>>

\* mount("", "/", NULL, MS_PRIVATE | MS_REC, NULL)
MakeRootPrivate ==
    /\ child.pc = "private_root"
    /\ \E ok \in BOOLEAN :
        /\ Logged("mount", "/", {MS_PRIVATE, MS_REC}, ok)
        /\ IF ok THEN /\ mnt' = [mnt EXCEPT ![child.mntns] = MakePrivate(@, "/")]
                      /\ child' = [child EXCEPT !.pc = "bind"]
                      /\ sig' = sig
                 ELSE /\ mnt' = mnt
                      /\ ChildFails
    /\ UNCHANGED <<launcher, cfgPtr, config, pc, result, heap, flags,
                   hostMnt0, fs, calls, failure, exitCode>>

\* Mutant: the bind and the propagation change in one call,
\* mount(abs_path, abs_path, NULL, MS_BIND | MS_PRIVATE, NULL); the kernel
\* binds and ignores the propagation flag.
BindMountPrivate ==
    /\ child.pc = "bind"
    /\ \E ok \in BOOLEAN :
        LET path == AbsPath(config.rootfs_path)
        IN  /\ Logged("mount", path, {MS_BIND, MS_PRIVATE}, ok)
            /\ IF ok
               THEN /\ mnt' = [n \in DOMAIN mnt |->
                                IF n = child.mntns
                                     \/ RootMount(mnt[child.mntns]).prop = "shared"
                                THEN BindSelf(mnt[n], path) ELSE mnt[n]]
                    /\ child' = [child EXCEPT !.pc = "chdir_new"]
                    /\ sig' = sig
               ELSE /\ mnt' = mnt
                    /\ ChildFails
    /\ UNCHANGED <<launcher, cfgPtr, config, pc, result, heap, flags,
                   hostMnt0, fs, calls, failure, exitCode>>

\* mount(abs_path, abs_path, NULL, MS_BIND | MS_REC, NULL): the new mount is
\* created in the child's namespace and, if the mount it lies in is shared
\* with the host's, in the host's too.
BindMount ==
    /\ child.pc = "bind"
    /\ \E ok \in BOOLEAN :
        LET path == AbsPath(config.rootfs_path)
        IN  /\ Logged("mount", path, {MS_BIND, MS_REC}, ok)
            /\ IF ok
               THEN /\ mnt' = [n \in DOMAIN mnt |->
                                IF n = child.mntns
                                     \/ RootMount(mnt[child.mntns]).prop = "shared"
                                THEN BindSelf(mnt[n], path) ELSE mnt[n]]
                    /\ child' = [child EXCEPT !.pc = "private_new"]
                    /\ sig' = sig
               ELSE /\ mnt' = mnt
                    /\ ChildFails
    /\ UNCHANGED <<launcher, cfgPtr, config, pc, result, heap, flags,
                   hostMnt0, fs, calls, failure, exitCode>>

\* mount("", abs_path, NULL, MS_PRIVATE | MS_REC, NULL)
MakeNewRootPrivate ==
    /\ child.pc = "private_new"
    /\ \E ok \in BOOLEAN :
        LET path == AbsPath(config.rootfs_path)
        IN  /\ Logged("mount", path, {MS_PRIVATE, MS_REC}, ok)
            /\ IF ok
               THEN /\ mnt' = [mnt EXCEPT ![child.mntns] = MakePrivate(@, path)]
                    /\ child' = [child EXCEPT !.pc = "chdir_new"]
                    /\ sig' = sig
               ELSE /\ mnt' = mnt
                    /\ ChildFails
    /\ UNCHANGED <<launcher, cfgPtr, config, pc, result, heap, flags,
                   hostMnt0, fs, calls, failure, exitCode>>

\* chdir(abs_path)
ChdirNewRoot ==
    /\ child.pc = "chdir_new"
    /\ \E ok \in BOOLEAN :
        LET path == AbsPath(config.rootfs_path)
        IN  /\ Logged("chdir", path, {}, ok)
            /\ IF ok THEN /\ child' = [child EXCEPT !.pc = "mkdir", !.cwd = path]
                          /\ sig' = sig
                     ELSE ChildFails
    /\ UNCHANGED <<launcher, cfgPtr, config, pc, result, heap, flags, mnt,
                   hostMnt0, fs, calls, failure, exitCode>>

\* Mutant: the result of mkdir is not looked at.
MkdirOldRootUnchecked ==
    /\ child.pc = "mkdir"
    /\ \E ok \in BOOLEAN :
        LET eexist == fs.old_root = "present"
            made == ok /\ ~eexist
        IN  /\ Logged("mkdir", "old_root", {}, made)
            /\ fs' = (IF made THEN [fs EXCEPT !.old_root = "present"] ELSE fs)
            /\ child' = [child EXCEPT !.pc = "pivot"]
            /\ sig' = sig
    /\ UNCHANGED <<launcher, cfgPtr, config, pc, result, heap, flags, mnt,
                   hostMnt0, calls, failure, exitCode>>

\* mkdir("old_root", 0700): EEXIST when the tree has the entry already (the
\* code goes on), otherwise the directory is created or the call fails.
MkdirOldRoot ==
    /\ child.pc = "mkdir"
    /\ \E ok \in BOOLEAN :
        LET eexist == fs.old_root = "present"
            made == ok /\ ~eexist
        IN  /\ Logged("mkdir", "old_root", {}, made)
            /\ fs' = (IF made THEN [fs EXCEPT !.old_root = "present"] ELSE fs)
            /\ IF made \/ eexist
               THEN /\ child' = [child EXCEPT !.pc = "pivot"]
                    /\ sig' = sig
               ELSE ChildFails
    /\ UNCHANGED <<launcher, cfgPtr, config, pc, result, heap, flags, mnt,
                   hostMnt0, calls, failure, exitCode>>

\* Mutant: a failed pivot is unwound by unmounting the bind mount before
\* the function returns.
PivotRootUnwinds ==
    /\ child.pc = "pivot"
    /\ \E want \in BOOLEAN :
        LET path == AbsPath(config.rootfs_path)
            ok == want /\ PivotAllowed(mnt[child.mntns], path, child.cwd, fs)
            rec(call, p, fl, k) ==
                [call |-> call, path |-> p, flags |-> fl, ns |-> child.mntns,
                 ok |-> k, errno |-> IF k THEN "none" ELSE "other"]
        IN  IF ok
            THEN /\ ops' = Append(ops, rec("pivot_root", ".", {}, TRUE))
                 /\ mnt' = [mnt EXCEPT ![child.mntns] = Pivot(@, path)]
                 /\ child' = [child EXCEPT !.pc = "chdir_root"]
                 /\ sig' = sig
            ELSE /\ ops' = Append(Append(ops, rec("pivot_root", ".", {}, FALSE)),
                                  rec("umount2", path, {MNT_DETACH}, TRUE))
                 /\ mnt' = [mnt EXCEPT ![child.mntns] = Detach(@, path)]
                 /\ ChildFails
    /\ UNCHANGED <<launcher, cfgPtr, config, pc, result, heap, flags,
                   hostMnt0, fs, calls, failure, exitCode>>

\* syscall(SYS_pivot_root, ".", "old_root")
PivotRoot ==
    /\ child.pc = "pivot"
    /\ \E want \in BOOLEAN :
        LET path == AbsPath(config.rootfs_path)
            ok == want /\ PivotAllowed(mnt[child.mntns], path, child.cwd, fs)
        IN  /\ Logged("pivot_root", ".", {}, ok)
            /\ IF ok
               THEN /\ mnt' = [mnt EXCEPT ![child.mntns] = Pivot(@, path)]
                    /\ child' = [child EXCEPT !.pc = "chdir_root"]
                    /\ sig' = sig
               ELSE /\ mnt' = mnt
                    /\ ChildFails
    /\ UNCHANGED <<launcher, cfgPtr, config, pc, result, heap, flags,
                   hostMnt0, fs, calls, failure, exitCode>>

\* chdir("/")
ChdirRoot ==
    /\ child.pc = "chdir_root"
    /\ \E ok \in BOOLEAN :
        /\ Logged("chdir", "/", {}, ok)
        /\ IF ok THEN /\ child' = [child EXCEPT !.pc = "umount", !.cwd = "/"]
                      /\ sig' = sig
                 ELSE ChildFails
    /\ UNCHANGED <<launcher, cfgPtr, config, pc, result, heap, flags, mnt,
                   hostMnt0, fs, calls, failure, exitCode>>

\* umount2("/old_root", MNT_DETACH)
UmountOldRoot ==
    /\ child.pc = "umount"
    /\ \E ok \in BOOLEAN :
        /\ Logged("umount2", "/old_root", {MNT_DETACH}, ok)
        /\ IF ok
           THEN /\ mnt' = [mnt EXCEPT ![child.mntns] = Detach(@, "/old_root")]
                /\ child' = [child EXCEPT !.pc = "rmdir"]
                /\ sig' = sig
           ELSE /\ mnt' = mnt
                /\ ChildFails
    /\ UNCHANGED <<launcher, cfgPtr, config, pc, result, heap, flags,
                   hostMnt0, fs, calls, failure, exitCode>>

\* Mutant: a failing rmdir fails setup_rootfs like every other step.
RmdirOldRootChecked ==
    /\ child.pc = "rmdir"
    /\ \E ok \in BOOLEAN :
        /\ Logged("rmdir", "/old_root", {}, ok)
        /\ fs' = (IF ok THEN [fs EXCEPT !.old_root = "absent"] ELSE fs)
        /\ IF ok THEN /\ child' = [child EXCEPT !.pc = "stat_proc"]
                      /\ sig' = sig
                 ELSE ChildFails
    /\ UNCHANGED <<launcher, cfgPtr, config, pc, result, heap, flags, mnt,
                   hostMnt0, calls, failure, exitCode>>

\* Mutant: old_root is removed only when this run created it.
RmdirOnlyIfCreated ==
    /\ child.pc = "rmdir"
    /\ IF fs.old_root0 = "present"
       THEN /\ ops' = ops
            /\ fs' = fs
       ELSE \E ok \in BOOLEAN :
              /\ Logged("rmdir", "/old_root", {}, ok)
              /\ fs' = (IF ok THEN [fs EXCEPT !.old_root = "absent"] ELSE fs)
    /\ child' = [child EXCEPT !.pc = "stat_proc"]
    /\ UNCHANGED <<launcher, cfgPtr, config, pc, result, heap, flags, mnt,
                   hostMnt0, sig, calls, failure, exitCode>>

\* rmdir("/old_root"), its result ignored; setup_rootfs returns 0 and
\* child_func goes on to mount_proc.
RmdirOldRoot ==
    /\ child.pc = "rmdir"
    /\ \E ok \in BOOLEAN :
        /\ Logged("rmdir", "/old_root", {}, ok)
        /\ fs' = (IF ok THEN [fs EXCEPT !.old_root = "absent"] ELSE fs)
    /\ child' = [child EXCEPT !.pc = "stat_proc"]
    /\ UNCHANGED <<launcher, cfgPtr, config, pc, result, heap, flags, mnt,
                   hostMnt0, sig, calls, failure, exitCode>>

\* ------------------------------------------------------ the child: mount_proc

\* Mutant: the S_ISDIR test is left out, only a failing stat skips the mount.
StatProcNoDirCheck ==
    /\ child.pc = "stat_proc"
    /\ Logged("stat", "/proc", {}, fs.proc # "absent")
    /\ child' = [child EXCEPT !.pc = (IF fs.proc # "absent" THEN "mount_proc"
                                      ELSE "execve")]
    /\ UNCHANGED <<launcher, cfgPtr, config, pc, result, heap, flags, mnt,
                   hostMnt0, fs, sig, calls, failure, exitCode>>

\* stat("/proc", &st) < 0 || !S_ISDIR(st.st_mode): skip the mount, return 0.
StatProc ==
    /\ child.pc = "stat_proc"
    /\ Logged("stat", "/proc", {}, fs.proc # "absent")
    /\ child' = [child EXCEPT !.pc = (IF fs.proc = "dir" THEN "mount_proc"
                                      ELSE "execve")]
    /\ UNCHANGED <<launcher, cfgPtr, config, pc, result, heap, flags, mnt,
                   hostMnt0, fs, sig, calls, failure, exitCode>>

\* mount("proc", "/proc", "proc", 0, NULL)
MountProcfs ==
    /\ child.pc = "mount_proc"
    /\ \E ok \in BOOLEAN :
        /\ Logged("mount", "/proc", {}, ok)
        /\ IF ok
           THEN /\ mnt' = [mnt EXCEPT ![child.mntns] = ProcMounted(@)]
                /\ child' = [child EXCEPT !.pc = "execve"]
                /\ sig' = sig
           ELSE /\ mnt' = mnt
                /\ ChildFails
    /\ UNCHANGED <<launcher, cfgPtr, config, pc, result, heap, flags,
                   hostMnt0, fs, calls, failure, exitCode>>

\* ---------------------------------------------- the child: execve and after

\* char *const *envp = args->envp ? args->envp : environ
ExecEnv(c) == IF c.envp # NULL THEN c.envp ELSE "environ"

\* Mutant: a failed execve leaves the child with the generic failure code 1.
ExecveExitsOne ==
    /\ child.pc = "execve"
    /\ \E want \in BOOLEAN :
        LET ok == want /\ config.program # ""
        IN  IF ok
            THEN /\ child' = [child EXCEPT !.pc = "running", !.execd = TRUE,
                                           !.execCalled = TRUE,
                                           !.env = ExecEnv(config)]
                 /\ sig' = sig
            ELSE /\ child' = [child EXCEPT !.pc = "zombie",
                                           !.status = W_EXITCODE(1),
                                           !.how = [kind |-> "exit", val |-> 1],
                                           !.execCalled = TRUE]
                 /\ sig' = [sig EXCEPT !.pending = sig.handler]
    /\ UNCHANGED <<launcher, cfgPtr, config, pc, result, heap, flags, mnt,
                   hostMnt0, ops, fs, calls, failure, exitCode>>

\* execve(program, argv, envp): on success the target program runs; when it
\* returns, the child leaves with 127 (return 127 / exit(127)).  An empty
\* path names no file.
Execve ==
    /\ child.pc = "execve"
    /\ \E want \in BOOLEAN :
        LET ok == want /\ config.program # ""
        IN  IF ok
            THEN /\ child' = [child EXCEPT !.pc = "running", !.execd = TRUE,
                                           !.execCalled = TRUE,
                                           !.env = ExecEnv(config)]
                 /\ sig' = sig
            ELSE /\ child' = [child EXCEPT !.pc = "zombie",
                                           !.status = W_EXITCODE(127),
                                           !.how = [kind |-> "exit", val |-> 127],
                                           !.execCalled = TRUE]
                 /\ sig' = [sig EXCEPT !.pending = sig.handler]
    /\ UNCHANGED <<launcher, cfgPtr, config, pc, result, heap, flags, mnt,
                   hostMnt0, ops, fs, calls, failure, exitCode>>

\* The target program exits with code c.
TargetExit ==
    /\ child.pc = "running"
    /\ \E c \in ExitCodes : Terminate(W_EXITCODE(c), "exit", c)
    /\ UNCHANGED <<launcher, cfgPtr, config, pc, result, heap, flags, mnt,
                   hostMnt0, ops, fs, calls, failure, exitCode>>

\* The target program is killed by signal s, with or without a core dump.
TargetKilled ==
    /\ child.pc = "running"
    /\ \E s \in Signals, core \in BOOLEAN :
        Terminate(W_KILLED(s, core), "signal", s)
    /\ UNCHANGED <<launcher, cfgPtr, config, pc, result, heap, flags, mnt,
                   hostMnt0, ops, fs, calls, failure, exitCode>>


\* ------------------------------------------------- the parent: SIGCHLD (spawn.c)

\* sig.inits counts the calls of spawn_init_signals, sig.installs the calls of
\* sigaction it made, sig.ret is the value its last call returned.

\* Mutant: the flag is set before sigaction is tried, so a failed
\* installation is never tried again.
spawn_init_signals_FlagFirst(s, ok) ==
    IF s.initialized
    THEN [s EXCEPT !.inits = @ + 1, !.ret = 0]
    ELSE IF ok
    THEN [s EXCEPT !.inits = @ + 1, !.installs = @ + 1, !.handler = TRUE,
                   !.initialized = TRUE, !.ret = 0]
    ELSE [s EXCEPT !.inits = @ + 1, !.installs = @ + 1,
                   !.initialized = TRUE, !.ret = -1]

\* Mutant: the flag is never consulted, every call installs the handler.
spawn_init_signals_Reinstalls(s, ok) ==
    IF ok
    THEN [s EXCEPT !.inits = @ + 1, !.installs = @ + 1, !.handler = TRUE,
                   !.initialized = TRUE, !.ret = 0]
    ELSE [s EXCEPT !.inits = @ + 1, !.installs = @ + 1, !.ret = -1]

\* spawn_init_signals: returns 0 at once when signals_initialized; otherwise
\* sigaction installs sigchld_handler (ok), the flag is set and 0 returned,
\* or sigaction fails and -1 is returned with the flag as it was.
spawn_init_signals(s, ok) ==
    IF s.initialized
    THEN [s EXCEPT !.inits = @ + 1, !.ret = 0]
    ELSE IF ok
    THEN [s EXCEPT !.inits = @ + 1, !.installs = @ + 1, !.handler = TRUE,
                   !.initialized = TRUE, !.ret = 0]
    ELSE [s EXCEPT !.inits = @ + 1, !.installs = @ + 1, !.ret = -1]

\* main.c: if (spawn_init_signals() < 0) return 1.
SpawnInitSignals ==
    /\ pc = "init_signals"
    /\ \E ok \in BOOLEAN :
        /\ sig' = spawn_init_signals(sig, ok)
        /\ IF sig'.ret < 0
           THEN pc' = "done" /\ exitCode' = 1
           ELSE pc' = "validate" /\ exitCode' = exitCode
    /\ UNCHANGED <<launcher, cfgPtr, config, result, heap, flags, child, mnt,
                   hostMnt0, ops, fs, calls, failure>>

\* test_spawn.c main: spawn_init_signals(); with the result ignored.  The
\* caller may call it again before it launches.
SpawnInitSignalsIgnored ==
    /\ pc = "init_signals"
    /\ sig.inits < MaxInitCalls
    /\ \E ok \in BOOLEAN : sig' = spawn_init_signals(sig, ok)
    /\ UNCHANGED <<launcher, cfgPtr, config, pc, result, heap, flags, child,
                   mnt, hostMnt0, ops, fs, calls, failure, exitCode>>

\* A caller that goes on to launch without the call main.c makes: it never
\* called spawn_init_signals (spawn_process used as a library function) or
\* called it with the result ignored.
SpawnWithoutHandler ==
    /\ pc = "init_signals"
    /\ pc' = "validate"
    /\ UNCHANGED <<launcher, cfgPtr, config, result, heap, flags, child, mnt,
                   hostMnt0, ops, fs, sig, calls, failure, exitCode>>

\* sigchld_handler, run in the parent while SIGCHLD is pending:
\* while(waitpid(-1, NULL, WNOHANG) > 0) reaps every terminated child.
SigchldHandler ==
    /\ sig.handler
    /\ sig.pending
    /\ pc # "done"
    /\ sig' = [sig EXCEPT !.pending = FALSE]
    /\ child' = (IF child.pc = "zombie"
                 THEN [child EXCEPT !.pc = "reaped", !.reapedBy = "handler"]
                 ELSE child)
    /\ UNCHANGED <<launcher, cfgPtr, config, pc, result, heap, flags, mnt,
                   hostMnt0, ops, fs, calls, failure, exitCode>>

\* ----------------------------------------------- the parent: cleanup, callers

\* Mutant: cleanup frees the handle without looking at it.
CleanupUnchecked(ptr, res, h) ==
    IF ptr # NULL
    THEN [result |-> [res EXCEPT !.stack_ptr = NULL], heap |-> Free(h)]
    ELSE [result |-> res, heap |-> h]

\* Mutant: cleanup frees the stack and does not null the handle.
CleanupKeepsHandle(ptr, res, h) ==
    IF ptr # NULL /\ res.stack_ptr # NULL
    THEN [result |-> res, heap |-> Free(h)]
    ELSE [result |-> res, heap |-> h]

\* Mutant: cleanup resets the whole result after freeing the stack.
CleanupResetsResult(ptr, res, h) ==
    IF ptr # NULL /\ res.stack_ptr # NULL
    THEN [result |-> [child_pid |-> 0, exit_status |-> 0,
                      exited_normally |-> FALSE, signal |-> 0,
                      stack_ptr |-> NULL],
          heap |-> Free(h)]
    ELSE [result |-> res, heap |-> h]

\* namespace_cleanup / mount_cleanup, called with the pointer ptr to the
\* result res while the heap is h.
Cleanup(ptr, res, h) ==
    IF ptr # NULL /\ res.stack_ptr # NULL
    THEN [result |-> [res EXCEPT !.stack_ptr = NULL], heap |-> Free(h)]
    ELSE [result |-> res, heap |-> h]

\* Mutant: the front end goes on to handle the result without the cleanup
\* call.
CallCleanupForgotten ==
    /\ pc = "returned"
    /\ launcher # "spawn"
    /\ pc' = "cleaned"
    /\ UNCHANGED <<launcher, cfgPtr, config, result, heap, flags, child, mnt,
                   hostMnt0, ops, fs, sig, calls, failure, exitCode>>

\* The caller's cleanup call after the launcher has returned
\* (namespace_cleanup(&result) / mount_cleanup(&result)).
CallCleanup ==
    /\ pc = "returned"
    /\ launcher # "spawn"
    /\ LET r == Cleanup("result", result, heap)
       IN  result' = r.result /\ heap' = r.heap
    /\ calls' = Append(calls, "result")
    /\ pc' = "cleaned"
    /\ UNCHANGED <<launcher, cfgPtr, config, flags, child, mnt, hostMnt0,
                   ops, fs, sig, failure, exitCode>>

\* A further cleanup call on the same result.
CallCleanupAgain ==
    /\ pc = "cleaned"
    /\ Len(calls) <= MaxExtraCleanups
    /\ LET r == Cleanup("result", result, heap)
       IN  result' = r.result /\ heap' = r.heap
    /\ calls' = Append(calls, "result")
    /\ UNCHANGED <<launcher, cfgPtr, config, pc, flags, child, mnt, hostMnt0,
                   ops, fs, sig, failure, exitCode>>

\* A cleanup call with a NULL result pointer.
CallCleanupNull ==
    /\ pc \in {"returned", "cleaned"}
    /\ launcher # "spawn"
    /\ Cardinality({i \in DOMAIN calls : calls[i] = NULL}) < MaxExtraCleanups
    /\ Len(calls) <= MaxExtraCleanups
    /\ LET r == Cleanup(NULL, result, heap)
       IN  result' = r.result /\ heap' = r.heap
    /\ calls' = Append(calls, NULL)
    /\ UNCHANGED <<launcher, cfgPtr, config, pc, flags, child, mnt, hostMnt0,
                   ops, fs, sig, failure, exitCode>>

\* Mutant: a signal death is returned as the bare signal number.
ExitCodeOfBareSignal(res) ==
    IF res.child_pid < 0 THEN 1
    ELSE IF ~res.exited_normally THEN res.signal
    ELSE res.exit_status

\* Handle result: what main returns for a result.
ExitCodeOf(res) ==
    IF res.child_pid < 0 THEN 1
    ELSE IF ~res.exited_normally THEN 128 + res.signal
    ELSE res.exit_status

\* The front end returns from main.
HandleResult ==
    /\ pc = (IF launcher = "spawn" THEN "returned" ELSE "cleaned")
    /\ exitCode' = ExitCodeOf(result)
    /\ pc' = "done"
    /\ UNCHANGED <<launcher, cfgPtr, config, result, heap, flags, child, mnt,
                   hostMnt0, ops, fs, sig, calls, failure>>

\* --------------------------------------------------------- the specification

Next ==
    \/ SpawnInitSignals
    \/ SpawnInitSignalsIgnored
    \/ SpawnWithoutHandler
    \/ Validate
    \/ MallocOk
    \/ MallocFail
    \/ CloneOk
    \/ CloneFail
    \/ ForkOk
    \/ ForkFail
    \/ WaitOk
    \/ WaitFail
    \/ SigchldHandler
    \/ CallCleanup
    \/ CallCleanupAgain
    \/ CallCleanupNull
    \/ HandleResult
    \/ ChildEntry
    \/ Realpath
    \/ MakeRootPrivate
    \/ BindMount
    \/ MakeNewRootPrivate
    \/ ChdirNewRoot
    \/ MkdirOldRoot
    \/ PivotRoot
    \/ ChdirRoot
    \/ UmountOldRoot
    \/ RmdirOldRoot
    \/ StatProc
    \/ MountProcfs
    \/ Execve
    \/ TargetExit
    \/ TargetKilled

Spec == Init /\ [][Next]_vars


\* The steps of the parent that are straight-line code: once the parent is
\* at one of them it takes it.
ParentProgress ==
    \/ SpawnInitSignals
    \/ SpawnWithoutHandler
    \/ Validate
    \/ MallocOk
    \/ MallocFail
    \/ CloneOk
    \/ CloneFail
    \/ ForkOk
    \/ ForkFail
    \/ CallCleanup
    \/ HandleResult

\* waitpid(pid, &status, 0) returns once the child has terminated: with its
\* status, or with ECHILD when the handler has reaped it.
WaitReturns ==
    \/ WaitOk
    \/ child.pc = "reaped" /\ WaitFail

\* The launch with a parent that is scheduled: blocked only in waitpid, and
\* there only while the child has not terminated.
FairSpec == Spec /\ WF_vars(ParentProgress) /\ WF_vars(WaitReturns)


\* ----------------------------------------------------------------- claims

\* The parent is past the launcher's return.
Returned == pc \in {"returned", "cleaned", "done"}

\* The system calls that change a mount table.
MountTableCalls == {"mount", "pivot_root", "umount2"}

\* C1: whenever mount_exec creates a child for a configuration with
\* rootfs_path set, the creation flags contain CLONE_NEWNS, whatever
\* enable_mount_namespace is.
C1_RootfsForcesNewns ==
    (launcher = "mount" /\ child.pc # "none" /\ config.rootfs_path # NULL)
        => CLONE_NEWNS \in flags

\* C2: every mount-table system call of the child of mount_exec is made in a
\* mount namespace other than the host's, and the host's mount table stays
\* what it was before the launch.
C2_HostMountTableUntouched ==
    launcher = "mount" =>
        /\ \A i \in DOMAIN ops :
              ops[i].call \in MountTableCalls => ops[i].ns # "host"
        /\ mnt.host = hostMnt0

\* A step of the pivot or of the proc mount whose failure the code treats as
\* a failure: every failed call but rmdir, stat and an mkdir that found the
\* directory.
FailedStep(o) ==
    ~o.ok /\ o.call \notin {"rmdir", "stat"} /\ o.errno # "EEXIST"

\* C3: in the child of mount_exec, execve is reached only if rootfs_path is
\* unset, or no step of setup_rootfs failed, the old root was detached, and
\* mount_proc returned success (it skipped the mount or the mount succeeded).
C3_ExecOnlyAfterSetup ==
    (launcher = "mount" /\ (child.execCalled \/ child.pc = "execve")) =>
        \/ config.rootfs_path = NULL
        \/ /\ \A i \in DOMAIN ops : ~FailedStep(ops[i])
           /\ \E i \in DOMAIN ops : ops[i].call = "umount2" /\ ops[i].ok
           /\ \E i \in DOMAIN ops :
                /\ ops[i].call = "stat"
                /\ \/ fs.proc # "dir"
                   \/ \E j \in DOMAIN ops :
                        /\ j > i
                        /\ ops[j].call = "mount"
                        /\ ops[j].path = "/proc"
                        /\ ops[j].ok

C3_Witness ==
    /\ launcher = "mount"
    /\ config.rootfs_path # NULL
    /\ child.execCalled
    /\ \E i \in DOMAIN ops : ops[i].path = "/proc" /\ ops[i].call = "mount"

\* C4: an allocated stack region is never freed more often than it was
\* allocated, and once the caller has made a cleanup call on the result it
\* has been freed exactly once, whichever way the launch ended.
C4_StackFreedExactlyOnce ==
    /\ heap.frees <= heap.mallocs
    /\ (\E i \in DOMAIN calls : calls[i] = "result")
          => heap.frees = heap.mallocs

C4_Witness ==
    /\ failure = "none"
    /\ child.how.kind = "signal"
    /\ calls = <<"result", "result">>
    /\ heap.mallocs = 1
    /\ heap.frees = 1

\* C5: the stack region is freed only if no child was created or the
\* launcher's wait has observed the child's termination.
C5_FreedOnlyAfterTermination ==
    heap.state = "freed" =>
        (child.pc = "none" \/ child.reapedBy = "launcher")

\* C6: a cleanup call on a result leaves its stack_ptr NULL; a call on a
\* result whose stack_ptr is already NULL (a second call, or a stack never
\* allocated) and a call with a NULL pointer change neither the result nor
\* the heap.
C6_CleanupIdempotent ==
    [][calls' # calls =>
         LET ptr == calls'[Len(calls')]
         IN  /\ ptr # NULL => result'.stack_ptr = NULL
             /\ (ptr = NULL \/ result.stack_ptr = NULL)
                   => (result' = result /\ heap' = heap)]_vars

C6_Witness ==
    /\ Len(calls) = 2
    /\ calls[1] = "result"
    /\ heap.frees = 1
    /\ result.stack_ptr = NULL
    /\ result.child_pid > 0

\* C7: namespace_exec / mount_exec called with the config pointer, the
\* program or the argument vector missing allocate no stack, create no child
\* and return child_pid = -1 with stack_ptr NULL; when the stack allocation
\* fails they return the same with no child created and nothing allocated.
C7_EarlyFailureCreatesNothing ==
    launcher # "spawn" =>
        /\ (cfgPtr = NULL \/ config.program = NULL \/ config.argv.ptr = NULL)
              => /\ child.pc = "none"
                 /\ heap.mallocs = 0
                 /\ Returned => (result.child_pid = -1
                                   /\ result.stack_ptr = NULL)
        /\ failure = "malloc"
              => /\ child.pc = "none"
                 /\ heap.state = "unallocated"
                 /\ result.child_pid = -1
                 /\ result.stack_ptr = NULL

C7_Witness ==
    /\ launcher = "mount"
    /\ pc = "returned"
    /\ cfgPtr # NULL
    /\ config.program # NULL
    /\ config.argv.ptr = NULL
    /\ result.child_pid = -1

\* C8: when clone fails, namespace_exec / mount_exec have freed the stack
\* once and return child_pid = -1 with stack_ptr NULL, and no later cleanup
\* call frees anything.
C8_CloneFailureReleasesStack ==
    (launcher # "spawn" /\ failure = "clone") =>
        /\ child.pc = "none"
        /\ result.child_pid = -1
        /\ result.stack_ptr = NULL
        /\ heap.state = "freed"
        /\ heap.frees = 1

C8_Witness ==
    /\ failure = "clone"
    /\ pc = "cleaned"
    /\ calls = <<"result">>
    /\ heap.frees = 1

\* C9: when waitpid fails, namespace_exec / mount_exec return
\* exit_status = -1 and exited_normally = FALSE with the stack still
\* allocated and stack_ptr still set; the caller's cleanup call then frees
\* it.
C9_WaitFailureKeepsStack ==
    (launcher # "spawn" /\ failure = "wait") =>
        /\ result.exit_status = -1
        /\ ~result.exited_normally
        /\ pc = "returned" => /\ result.stack_ptr = STACK
                              /\ heap.state = "allocated"
                              /\ heap.frees = 0
        /\ pc = "cleaned" => /\ result.stack_ptr = NULL
                             /\ heap.frees = 1

C9_Witness ==
    /\ launcher = "namespace"
    /\ failure = "wait"
    /\ pc = "returned"
    /\ result.stack_ptr = STACK

\* C10: whenever a launcher's wait has returned the status of a child that
\* exited with code c in 0..255, the result has exited_normally = TRUE,
\* exit_status = c, signal = 0 and child_pid > 0.
C10_NormalExitDecoded ==
    (Returned /\ child.reapedBy = "launcher" /\ child.how.kind = "exit"
        /\ child.how.val \in ExitCodes) =>
        /\ result.exited_normally
        /\ result.exit_status = child.how.val
        /\ result.signal = 0
        /\ result.child_pid > 0

C10_Witness ==
    /\ launcher = "spawn"
    /\ Returned
    /\ child.reapedBy = "launcher"
    /\ child.execd
    /\ child.how = [kind |-> "exit", val |-> 255]
    /\ result.exit_status = 255

C12_ExecFailureIs127 ==
    (child.execCalled /\ ~child.execd) =>
        /\ child.pc \in {"zombie", "reaped"}
        /\ child.status = W_EXITCODE(127)
        /\ (Returned /\ child.reapedBy = "launcher") =>
              /\ result.exited_normally
              /\ result.exit_status = 127

C12_Witness ==
    /\ launcher = "mount"
    /\ config.enable_pid_namespace
    /\ config.enable_mount_namespace
    /\ child.execCalled
    /\ ~child.execd
    /\ Returned
    /\ child.reapedBy = "launcher"
    /\ result.exit_status = 127

\* C13: once mount_exec's wait has returned the status of a child in which
\* a step of setup_rootfs or the proc mount failed, the result has
\* child_pid > 0, exited_normally = TRUE, signal = 0 and an exit_status in
\* 1..255; such a child never reaches execve and is not ended by a signal.
C13_SetupFailureIsOrdinaryExit ==
    (launcher = "mount" /\ \E i \in DOMAIN ops : FailedStep(ops[i])) =>
        /\ child.how.kind = "exit"
        /\ ~child.execCalled
        /\ (Returned /\ child.reapedBy = "launcher") =>
              /\ result.child_pid > 0
              /\ result.exited_normally
              /\ result.signal = 0
              /\ result.exit_status \in 1 .. 255

C13_Witness ==
    /\ launcher = "mount"
    /\ Returned
    /\ child.reapedBy = "launcher"
    /\ \E i \in DOMAIN ops :
          ops[i].call = "mount" /\ ops[i].path = "/proc" /\ ~ops[i].ok
    /\ result.exited_normally
    /\ result.exit_status = 255

IsProcMount(o) == o.call = "mount" /\ o.path = "/proc"

\* C15: when the new root has no /proc or /proc is not a directory, the
\* child never calls mount on /proc, and once it has looked at /proc it goes
\* on to execve; when the mount on /proc was attempted and failed, the child
\* has terminated with the failure status and never calls execve.
C15_ProcMountSkippedOrHardFailure ==
    /\ fs.proc # "dir" =>
          /\ \A i \in DOMAIN ops : ~IsProcMount(ops[i])
          /\ (\E i \in DOMAIN ops : ops[i].call = "stat") =>
                \/ child.pc \in {"execve", "running"}
                \/ child.pc \in {"zombie", "reaped"} /\ child.execCalled
    /\ (\E i \in DOMAIN ops : IsProcMount(ops[i]) /\ ~ops[i].ok) =>
          /\ fs.proc = "dir"
          /\ child.pc \in {"zombie", "reaped"}
          /\ child.status = W_EXITCODE(-1)
          /\ ~child.execCalled

C15_Witness ==
    /\ fs.proc = "file"
    /\ \E i \in DOMAIN ops : ops[i].call = "stat" /\ ops[i].ok
    /\ \A i \in DOMAIN ops : ~IsProcMount(ops[i])
    /\ child.execd

\* mount("", "/", NULL, MS_PRIVATE | MS_REC, NULL), as a logged call.
IsRootPrivate(o) ==
    o.call = "mount" /\ o.path = "/" /\ o.flags = {MS_PRIVATE, MS_REC}

\* C16: every mount-table call of setup_rootfs other than the recursive
\* make-private of "/" (the bind mount, the propagation change of the
\* target, pivot_root, umount2, and the proc mount after them) is made only
\* after that make-private was made and succeeded; it is the first
\* mount-table call.
C16_RootPrivateFirst ==
    \A i \in DOMAIN ops :
        (ops[i].call \in MountTableCalls /\ ~IsRootPrivate(ops[i])) =>
            \E j \in 1 .. (i - 1) :
                /\ IsRootPrivate(ops[j])
                /\ ops[j].ok
                /\ \A k \in 1 .. (j - 1) : ops[k].call \notin MountTableCalls

C16_Witness ==
    /\ hostMnt0 = {[fs |-> "hostfs", at |-> "/", prop |-> "shared"]}
    /\ \E j \in DOMAIN ops : IsRootPrivate(ops[j]) /\ ops[j].ok
    /\ \E i \in DOMAIN ops : ops[i].call = "pivot_root" /\ ops[i].ok
    /\ \E i \in DOMAIN ops : ops[i].call = "umount2" /\ ops[i].ok

\* C17: the target is bound onto itself with MS_BIND | MS_REC and marked
\* private with MS_PRIVATE | MS_REC in two calls: no mount call carries both
\* MS_BIND and a propagation flag, and the propagation change of the target
\* is made only right after a bind of the target that succeeded.
C17_BindThenPrivate ==
    \A i \in DOMAIN ops :
        ops[i].call = "mount" =>
            /\ ~(MS_BIND \in ops[i].flags /\ MS_PRIVATE \in ops[i].flags)
            /\ MS_BIND \in ops[i].flags => ops[i].flags = {MS_BIND, MS_REC}
            /\ (MS_PRIVATE \in ops[i].flags /\ ops[i].path # "/") =>
                  /\ ops[i].flags = {MS_PRIVATE, MS_REC}
                  /\ i > 1
                  /\ ops[i - 1].call = "mount"
                  /\ ops[i - 1].path = ops[i].path
                  /\ ops[i - 1].flags = {MS_BIND, MS_REC}
                  /\ ops[i - 1].ok

C17_Witness ==
    \E i \in DOMAIN ops :
        /\ ops[i].call = "mount"
        /\ ops[i].path = AbsPath(config.rootfs_path)
        /\ ops[i].flags = {MS_PRIVATE, MS_REC}
        /\ ops[i].ok
        /\ \E m \in mnt[child.mntns] : m.fs = "rootfs" /\ m.prop = "private"

\* C18: the child is about to call pivot_root only when the resolved target
\* is a mount of the target tree marked private, the current directory is
\* the target, and old_root exists under it, created by mkdir or found by it
\* (EEXIST); after an mkdir that failed otherwise no pivot_root is called.
C18_PivotPreconditions ==
    LET path == AbsPath(config.rootfs_path)
        tab == mnt[child.mntns]
    IN  /\ child.pc = "pivot" =>
              /\ \E m \in tab :
                    m.at = path /\ m.fs = "rootfs" /\ m.prop = "private"
              /\ child.cwd = path
              /\ fs.old_root = "present"
              /\ ops[Len(ops)].call = "mkdir"
              /\ ops[Len(ops)].ok \/ ops[Len(ops)].errno = "EEXIST"
              /\ ops[Len(ops)].ok <=> fs.old_root0 = "absent"
        /\ \A i \in DOMAIN ops :
              (ops[i].call = "mkdir" /\ ~ops[i].ok /\ ops[i].errno # "EEXIST") =>
                  /\ i = Len(ops)
                  /\ child.pc \in {"zombie", "reaped"}

C18_Witness ==
    /\ fs.old_root0 = "present"
    /\ \E i \in DOMAIN ops : ops[i].call = "mkdir" /\ ops[i].errno = "EEXIST"
    /\ \E i \in DOMAIN ops : ops[i].call = "pivot_root" /\ ops[i].ok

\* setup_rootfs has returned 0: its last call, the rmdir, has been made.
SetupReturnedSuccess == \E i \in DOMAIN ops : ops[i].call = "rmdir"

\* C19: a successful pivot_root is followed by chdir("/") and then by
\* umount2("/old_root", MNT_DETACH), in that order; and once setup_rootfs
\* has returned success the child's root mount is the target tree, its
\* current directory is the new root, and the old root is mounted nowhere
\* in the child's mount table.
C19_OldRootDetached ==
    /\ \A i \in DOMAIN ops :
          (ops[i].call = "umount2") =>
              /\ ops[i].flags = {MNT_DETACH}
              /\ ops[i].path = "/old_root"
              /\ i > 2
              /\ ops[i - 1].call = "chdir" /\ ops[i - 1].path = "/"
              /\ ops[i - 1].ok
              /\ ops[i - 2].call = "pivot_root" /\ ops[i - 2].ok
    /\ SetupReturnedSuccess =>
          LET tab == mnt[child.mntns]
          IN  /\ RootMount(tab).fs = "rootfs"
              /\ \A m \in tab : m.fs # "hostfs" /\ m.at # "/old_root"
              /\ child.cwd = "/"
              /\ \E i \in DOMAIN ops : ops[i].call = "umount2" /\ ops[i].ok

C19_Witness ==
    /\ launcher = "mount"
    /\ CLONE_NEWNS \in flags
    /\ SetupReturnedSuccess
    /\ child.execd
    /\ RootMount(mnt.child).fs = "rootfs"

\* C20: the call after a successful umount2 is the rmdir of /old_root, and
\* whether that rmdir succeeds or fails the child goes on to look at
\* /proc, never terminating on the rmdir.
C20_RmdirBestEffort ==
    \A i \in DOMAIN ops :
        /\ (ops[i].call = "umount2" /\ ops[i].ok /\ i = Len(ops)) =>
              child.pc = "rmdir"
        /\ ops[i].call = "rmdir" =>
              /\ ops[i - 1].call = "umount2" /\ ops[i - 1].ok
              /\ i = Len(ops) => child.pc = "stat_proc"
              /\ i < Len(ops) => ops[i + 1].call = "stat"

C20_Witness ==
    /\ \E i \in DOMAIN ops : ops[i].call = "rmdir" /\ ~ops[i].ok
    /\ fs.old_root = "present"
    /\ child.execd

\* C21: a failed step of setup_rootfs is the last system call the child
\* makes: no later step and no compensating call (unmount of the bind
\* mount, removal of old_root, chdir back) follows it, the mount table is
\* left as the failed step found it, and the child has terminated with the
\* failure status.
C21_FailedStepIsLast ==
    \A i \in DOMAIN ops :
        FailedStep(ops[i]) =>
            /\ i = Len(ops)
            /\ child.pc \in {"zombie", "reaped"}
            /\ child.status = W_EXITCODE(-1)
            /\ ops[i].call \in {"pivot_root", "chdir", "umount2"} =>
                  \E m \in mnt[child.mntns] :
                      m.fs = "rootfs" /\ m.prop = "private"

C21_Witness ==
    /\ Len(ops) = 7
    /\ ops[7].call = "pivot_root"
    /\ ~ops[7].ok
    /\ child.pc = "zombie"
    /\ \E m \in mnt[child.mntns] : m.at = AbsPath(config.rootfs_path)

\* C22: whenever a launcher has returned a result with child_pid > 0 and its
\* wait did not fail, the child it created has terminated and has been
\* reaped: it is neither running nor a zombie.
C22_ReturnsAfterReaping ==
    (Returned /\ result.child_pid > 0
        /\ failure \notin {"wait", "wait_echild"}) =>
        /\ child.pc = "reaped"
        /\ child.how.kind \in {"exit", "signal"}

C22_Witness ==
    /\ launcher = "namespace"
    /\ pc = "returned"
    /\ result.child_pid > 0
    /\ failure = "none"
    /\ child.pc = "reaped"
    /\ child.execd

\* C23: in a launch through namespace_exec or mount_exec no SIGCHLD handler
\* is ever installed, the child is reaped by nothing but the launcher's own
\* waitpid, and that waitpid never finds the child already reaped.
C23_OnlyTheLauncherReaps ==
    launcher # "spawn" =>
        /\ ~sig.handler
        /\ ~sig.pending
        /\ child.reapedBy \in {"none", "launcher"}
        /\ child.pc = "reaped" <=> child.reapedBy = "launcher"
        /\ failure # "wait_echild"
        /\ child.reapedBy = "launcher" => failure = "none"

C23_Witness ==
    /\ launcher = "mount"
    /\ Returned
    /\ child.pc = "reaped"
    /\ child.reapedBy = "launcher"
    /\ result.exited_normally

\* C24: with the handler of spawn_init_signals installed, whenever
\* spawn_process has returned and its waitpid was not interrupted, a child
\* that exited with code c has given child_pid > 0, exited_normally = TRUE
\* and exit_status = c, and a child killed by signal s has given
\* exited_normally = FALSE and signal = s.
C24_HandlerKeepsResult ==
    (launcher = "spawn" /\ sig.handler /\ Returned /\ failure # "wait"
        /\ child.pc = "reaped") =>
        /\ result.child_pid > 0
        /\ child.how.kind = "exit" =>
              result.exited_normally /\ result.exit_status = child.how.val
        /\ child.how.kind = "signal" =>
              ~result.exited_normally /\ result.signal = child.how.val

\* C25: with the handler of spawn_init_signals installed, once spawn_process
\* has returned from a waitpid that was not interrupted, the child it
\* created is no zombie: it has been reaped by the handler or by
\* spawn_process's waitpid, by the handler exactly when that waitpid failed
\* with ECHILD.
C25_NoZombieAfterReturn ==
    (launcher = "spawn" /\ sig.handler /\ Returned /\ child.pc # "none"
        /\ failure # "wait") =>
        /\ child.pc = "reaped"
        /\ child.reapedBy \in {"handler", "launcher"}
        /\ child.reapedBy = "handler" <=> failure = "wait_echild"
        /\ child.reapedBy = "launcher" <=> failure = "none"

C25_Witness ==
    /\ launcher = "spawn"
    /\ sig.handler
    /\ pc = "returned"
    /\ child.reapedBy = "handler"
    /\ failure = "wait_echild"
    /\ child.execd

\* C26: once the front end has returned after a launch whose wait returned
\* the child's status, its own exit code is c for a child that exited with
\* c, and 128 + s for a child killed by signal s.
C26_ExitCodeMapping ==
    (pc = "done" /\ child.reapedBy = "launcher") =>
        /\ (child.how.kind = "exit" /\ child.how.val \in ExitCodes) =>
              exitCode = child.how.val
        /\ child.how.kind = "signal" => exitCode = 128 + child.how.val

C26_Witness ==
    /\ launcher = "namespace"
    /\ pc = "done"
    /\ child.reapedBy = "launcher"
    /\ child.how = [kind |-> "signal", val |-> 9]
    /\ exitCode = 137

\* C27: once the front end has returned after a launch in which the
\* launcher took one of its failure branches (invalid configuration, stack
\* allocation, process creation, wait), its exit code is the one fixed code
\* 1, and the result it handled was not taken for a signal death.
C27_InternalFailureIsOne ==
    (pc = "done" /\ failure # "none") =>
        /\ exitCode = 1
        /\ result.child_pid < 0

\* C28: the flags handed to clone or used by fork always contain SIGCHLD;
\* those of namespace_exec / mount_exec contain CLONE_NEWPID exactly when
\* enable_pid_namespace is set; a child created with CLONE_NEWPID sees its
\* own process id as 1, a child created without sees the id the parent
\* recorded in child_pid.
C28_PidNamespaceFlag ==
    /\ flags # {} => SIGCHLD \in flags
    /\ (launcher # "spawn" /\ flags # {}) =>
          (CLONE_NEWPID \in flags <=> config.enable_pid_namespace)
    /\ (launcher # "spawn" /\ child.pc # "none") =>
          /\ result.child_pid = child.pid
          /\ child.pid > 1
          /\ config.enable_pid_namespace => child.getpid = 1
          /\ ~config.enable_pid_namespace => child.getpid = result.child_pid
    /\ (launcher = "spawn" /\ child.pc # "none") => child.getpid = child.pid

C28_Witness ==
    /\ launcher = "namespace"
    /\ config.enable_pid_namespace
    /\ flags = {SIGCHLD, CLONE_NEWPID}
    /\ child.getpid = 1
    /\ result.child_pid = 2
    /\ child.execd

\* C29: a cleanup call leaves child_pid, exit_status, exited_normally and
\* signal of the result as they were.
C29_CleanupKeepsOutcome ==
    [][calls' # calls =>
         /\ result'.child_pid = result.child_pid
         /\ result'.exit_status = result.exit_status
         /\ result'.exited_normally = result.exited_normally
         /\ result'.signal = result.signal]_vars

C29_Witness ==
    /\ launcher = "mount"
    /\ pc = "cleaned"
    /\ heap.state = "freed"
    /\ result.stack_ptr = NULL
    /\ result.child_pid = 2
    /\ result.exited_normally
    /\ result.exit_status = 42

\* C30: every result namespace_exec / mount_exec have returned has an
\* exit_status in 0..255 or -1; exit_status = -1 or child_pid = -1 only
\* when the launcher took a failure branch; exited_normally implies
\* signal = 0; and a result with signal s # 0 has exited_normally = FALSE
\* and exit_status = 128 + s.
C30_ResultWellFormed ==
    (launcher # "spawn" /\ Returned) =>
        /\ result.exit_status \in (0 .. 255) \cup {-1}
        /\ (result.exit_status = -1 \/ result.child_pid = -1) =>
              failure # "none"
        /\ result.exited_normally => result.signal = 0
        /\ result.signal # 0 =>
              /\ ~result.exited_normally
              /\ result.exit_status = 128 + result.signal

C30_Witness ==
    /\ launcher = "mount"
    /\ Returned
    /\ failure = "none"
    /\ result.exited_normally
    /\ result.exit_status = 255
    /\ \E i \in DOMAIN ops : FailedStep(ops[i])

\* C31: under fair scheduling of the parent, once the created child has
\* terminated the front end eventually has returned from main with the
\* stack region released; and a launcher whose wait succeeded has never
\* returned while the child was still running.
C31_TerminationLeadsToExit ==
    /\ (child.pc \in {"zombie", "reaped"})
          ~> (pc = "done" /\ heap.state # "allocated")
    /\ []((Returned /\ child.pc # "none" /\ failure = "none") =>
             child.reapedBy = "launcher")

C31_Witness ==
    /\ launcher = "mount"
    /\ pc = "done"
    /\ child.pc = "reaped"
    /\ child.how.kind = "signal"
    /\ heap.state = "freed"
    /\ heap.frees = 1

\* What launcher l's code returns for the configuration c behind ptr when
\* the launch takes the failure branch fail ("none": the wait returns the
\* status st of the child pid), composed from the code's branches in the
\* order the launcher runs them.
Outcome(l, ptr, c, fail, pid, st) ==
    LET zero == ZeroResult(l)
        held == IF l = "spawn" THEN zero ELSE [zero EXCEPT !.stack_ptr = STACK]
        created == [held EXCEPT !.child_pid = pid]
    IN  IF InvalidConfig(ptr, c) \/ fail = "malloc"
        THEN [zero EXCEPT !.child_pid = -1]
        ELSE IF fail \in {"clone", "fork"}
        THEN (IF l = "spawn" THEN [zero EXCEPT !.child_pid = -1]
              ELSE CloneFailed(held))
        ELSE IF fail \in {"wait", "wait_echild"}
        THEN WaitFailed(l, created)
        ELSE Decode(created, st)

\* A mount_config_t with the mount namespace off and no rootfs, and the
\* namespace_config_t with the same program, arguments, environment and
\* PID flag.
PlainMount(c) == ~c.enable_mount_namespace /\ c.rootfs_path = NULL

AsNamespaceConfig(c) ==
    [program |-> c.program, argv |-> c.argv, envp |-> c.envp,
     enable_pid_namespace |-> c.enable_pid_namespace]

AsMountConfig(c) ==
    [program |-> c.program, argv |-> c.argv, envp |-> c.envp,
     enable_pid_namespace |-> c.enable_pid_namespace,
     enable_mount_namespace |-> FALSE, rootfs_path |-> NULL]

\* C32: whenever mount_exec has returned for a configuration with the mount
\* namespace off and no rootfs, its result is the one namespace_exec's
\* code gives for the same program, arguments, environment and PID flag at
\* the same failure point or child status, the flags it handed to clone
\* are namespace_exec's, it has made no mount or pivot call, and the stack
\* was allocated and freed the same way; and the other way round for
\* namespace_exec.
C32_PlainMountIsNamespace ==
    (pc = "returned" /\ launcher # "spawn"
        /\ (launcher = "mount" => PlainMount(config))) =>
        LET other == IF launcher = "mount" THEN "namespace" ELSE "mount"
            conf == IF launcher = "mount" THEN AsNamespaceConfig(config)
                    ELSE AsMountConfig(config)
        IN  /\ result = Outcome(launcher, cfgPtr, config, failure,
                                child.pid, child.status)
            /\ result = Outcome(other, cfgPtr, conf, failure,
                                child.pid, child.status)
            /\ flags = (IF failure \in {"validate", "malloc"} THEN {}
                        ELSE CloneFlags(other, conf))
            /\ ops = <<>>
            /\ mnt.host = hostMnt0
            /\ heap.mallocs = (IF failure \in {"validate", "malloc"}
                               THEN 0 ELSE 1)
            /\ heap.frees = (IF failure = "clone" THEN 1 ELSE 0)

C32_Witness ==
    /\ launcher = "mount"
    /\ PlainMount(config)
    /\ config.enable_pid_namespace
    /\ pc = "returned"
    /\ failure = "wait"
    /\ result.exit_status = -1
    /\ flags = {SIGCHLD, CLONE_NEWPID}

\* child_pid, exit_status, exited_normally and signal of a result.
Outcome4(r) ==
    [child_pid |-> r.child_pid, exit_status |-> r.exit_status,
     exited_normally |-> r.exited_normally, signal |-> r.signal]

AsSpawnConfig(c) ==
    [program |-> c.program, argv |-> c.argv, envp |-> c.envp]

\* C33: whenever namespace_exec has returned for a configuration with the
\* PID namespace off, child_pid, exit_status, exited_normally and signal of
\* its result are those spawn_process's code gives for the same program,
\* arguments and environment at the same failure point (creation, wait) or
\* child status.
C33_NamespaceIsSpawn ==
    (pc = "returned" /\ launcher = "namespace"
        /\ ~config.enable_pid_namespace) =>
        Outcome4(result) =
            Outcome4(Outcome("spawn", cfgPtr, AsSpawnConfig(config),
                             IF failure = "clone" THEN "fork" ELSE failure,
                             child.pid, child.status))

\* C34 as stated: the target directory is resolved only after the
\* recursive make-private of "/" has been made and has succeeded.
C34_PrivateBeforeRealpath ==
    \A i \in DOMAIN ops :
        ops[i].call = "realpath" =>
            \E j \in 1 .. (i - 1) : IsRootPrivate(ops[j]) /\ ops[j].ok

\* C34 as amended: setup_rootfs resolves the target directory first and
\* makes the mount tree private second: realpath is the first call, the
\* make-private of "/" is made only right after a realpath that succeeded,
\* and when realpath fails no mount-table call has been made and the mount
\* tables are what they were before the launch.
C34_RealpathBeforePrivate ==
    /\ \A i \in DOMAIN ops :
          /\ ops[i].call = "realpath" <=> i = 1
          /\ IsRootPrivate(ops[i]) <=> i = 2
    /\ (ops # <<>> /\ ~ops[1].ok) =>
          /\ Len(ops) = 1
          /\ mnt.host = hostMnt0
          /\ mnt[child.mntns] = hostMnt0
          /\ child.pc \in {"zombie", "reaped"}
          /\ child.status = W_EXITCODE(-1)

C34_Witness ==
    /\ Len(ops) = 1
    /\ ops[1].call = "realpath"
    /\ ~ops[1].ok
    /\ child.pc = "zombie"
    /\ hostMnt0 = {[fs |-> "hostfs", at |-> "/", prop |-> "shared"]}
    /\ mnt.child = hostMnt0
    /\ CLONE_NEWNS \in flags

\* C35: mount_proc is entered exactly when rootfs_path is set and
\* setup_rootfs has returned success, and so after the pivot; when the
\* target program has been exec'd with rootfs_path set and /proc a directory
\* of the new root, a proc filesystem is mounted at /proc under the new
\* root; with rootfs_path unset the child makes none of these calls,
\* whatever enable_pid_namespace is.
C35_ProcMountFollowsPivot ==
    /\ (\E i \in DOMAIN ops : ops[i].call = "stat" \/ IsProcMount(ops[i])) =>
          /\ launcher = "mount"
          /\ config.rootfs_path # NULL
          /\ SetupReturnedSuccess
    /\ \A i \in DOMAIN ops :
          (ops[i].call = "stat" \/ IsProcMount(ops[i])) =>
              \E j \in 1 .. (i - 1) : ops[j].call = "pivot_root" /\ ops[j].ok
    /\ SetupReturnedSuccess =>
          \/ child.pc = "stat_proc"
          \/ \E i \in DOMAIN ops : ops[i].call = "stat"
    /\ (child.execd /\ launcher = "mount" /\ config.rootfs_path # NULL
            /\ fs.proc = "dir") =>
          /\ \E m \in mnt[child.mntns] : m.fs = "proc" /\ m.at = "/proc"
          /\ RootMount(mnt[child.mntns]).fs = "rootfs"
    /\ (launcher # "mount" \/ config.rootfs_path = NULL) =>
          /\ ops = <<>>
          /\ mnt.host = hostMnt0
          /\ \A m \in mnt.child : m.fs = "hostfs"

C35_Witness ==
    /\ launcher = "mount"
    /\ config.enable_pid_namespace
    /\ config.enable_mount_namespace
    /\ config.rootfs_path # NULL
    /\ fs.proc = "dir"
    /\ child.execd
    /\ \E m \in mnt.child : m.fs = "proc" /\ m.at = "/proc"

\* setup_rootfs is past its rmdir step: the lazy detach succeeded and the
\* child is no longer about to call rmdir.
PastRmdir ==
    /\ \E i \in DOMAIN ops : ops[i].call = "umount2" /\ ops[i].ok
    /\ child.pc # "rmdir"

\* C36 as stated: after a successful pivot the root of the tree has an
\* old_root entry if and only if it had one before the launch.
C36_OldRootAsFound ==
    PastRmdir => fs.old_root = fs.old_root0

\* C36 as amended: after a successful pivot setup_rootfs has called rmdir on
\* old_root whether it created the entry or found it, and the root of the
\* tree has an old_root entry if and only if that rmdir failed.
C36_OldRootGoneIfRmdirWorked ==
    PastRmdir =>
        \E i \in DOMAIN ops :
            /\ ops[i].call = "rmdir"
            /\ ops[i].path = "/old_root"
            /\ fs.old_root = "absent" <=> ops[i].ok

C36_Witness ==
    /\ PastRmdir
    /\ fs.old_root0 = "present"
    /\ fs.old_root = "absent"
    /\ child.execd

\* A configuration that is there, with a program path and an argument
\* vector that are there, one of them empty.
EmptyProgramOrArgv ==
    /\ cfgPtr # NULL
    /\ config.program # NULL
    /\ config.argv.ptr # NULL
    /\ config.program = "" \/ config.argv.args = <<>>

C38_InitSignalsIdempotent ==
    [][(sig'.inits # sig.inits) =>
          /\ sig'.inits = sig.inits + 1
          /\ sig'.pending = sig.pending
          /\ IF sig.initialized
             THEN /\ sig'.ret = 0
                  /\ sig'.installs = sig.installs
                  /\ sig'.initialized
                  /\ sig'.handler = sig.handler
             ELSE /\ sig'.installs = sig.installs + 1
                  /\ \/ sig'.ret = 0 /\ sig'.initialized /\ sig'.handler
                     \/ /\ sig'.ret = -1
                        /\ ~sig'.initialized
                        /\ sig'.handler = sig.handler
          /\ sig'.initialized => sig'.handler]_vars

\* A first call failed, a second one tried again and installed the handler,
\* and a third one returned 0 without a further sigaction call.
C38_Witness ==
    /\ launcher = "spawn"
    /\ sig.inits = 3
    /\ sig.installs = 2
    /\ sig.initialized
    /\ sig.handler
    /\ sig.ret = 0

====
